---- MODULE Spec2Model ----
(***************************************************************************)
(* Model of bot.py ("Bot da Chave"): the module-level State singleton, its *)
(* JSON persistence (state.json), the CSV audit log (log.csv) and the      *)
(* aiogram handlers (cmd_setup, cmd_status, cmd_reset, on_transferir,      *)
(* on_voltar, on_definir).  aiogram runs every update                      *)
(* handler as its own asyncio task, so handlers interleave at their        *)
(* await points; the code between two awaits runs without interruption     *)
(* (only a stop of the process can fall inside it).                        *)
(***************************************************************************)
EXTENDS Integers, Sequences, FiniteSets, TLC

(***************************************************************************)
(* Bounds of the model.                                                    *)
(***************************************************************************)
\* handler tasks that may be in flight at the same time
MaxHandlers == 2
\* updates (commands and button presses) delivered in one behaviour
MaxOps == 2
\* last instant of the clock
MaxTime == 1

(***************************************************************************)
(* Constants of the program.                                               *)
(***************************************************************************)
EMPREGADOS ==
    { "Secretaria",
      "Lucas", "André", "Pâmela", "Maria Cecília", "Lívia", "Loreena",
      "Duda", "Maria Fernanda", "Jéssica", "Manoela", "Luara", "Enzo",
      "Maria Gabriela", "Guilherme" }

SECRETARIA == "Secretaria"

DEFAULT_HOLDER == SECRETARIA

\* the action cells log_event is called with
ACAO_RESET == "reset"

ACAO_TRANSFERIR == "transferir"

\* the header ensure_log_header writes
HeaderRow == << "timestamp_utc", "acao", "de", "para", "by_user_id", "chat_id" >>

\* the fields of the State dataclass
FieldNames == { "current_holder", "updated_at_iso", "pinned_message_id", "chat_id" }

(***************************************************************************)
(* Inputs: the payloads after "definir::" that arrive (a name of the       *)
(* roster, the default, a name that is not in the roster), the users and   *)
(* the chats.                                                              *)
(***************************************************************************)
Targets == { "Secretaria", "Lucas", "Carol" }

Users == { 1 }

Chats == { 100 }

Handlers == 1 .. MaxHandlers

(***************************************************************************)
(* Python values, as far as the program handles them.                      *)
(***************************************************************************)
PyNone == [ty |-> "NoneType"]

PyStr(s) == [ty |-> "str", v |-> s]

PyInt(n) == [ty |-> "int", v |-> n]

\* bool(x), as the "if a and b" tests apply it
Truthy(x) ==
    CASE x.ty = "NoneType" -> FALSE
      [] x.ty = "int" -> x.v # 0
      [] x.ty = "str" -> x.v # ""

\* the text csv.writer puts in a cell: str(x), and nothing for None
CellText(x) ==
    CASE x.ty = "NoneType" -> ""
      [] x.ty = "int" -> ToString(x.v)
      [] x.ty = "str" -> x.v

\* datetime.now(timezone.utc).isoformat() at instant t of the clock
IsoFormat(t) == "2024-01-01T00:00:0" \o ToString(t) \o "+00:00"

(***************************************************************************)
(* state.json.  A file is missing, holds text json.loads rejects (an empty *)
(* or cut file among them), holds a JSON array, or holds a JSON object.    *)
(***************************************************************************)
Missing == [t |-> "missing"]

Truncated == [t |-> "invalid"]

JsonArray == [t |-> "array"]

JsonObject(m) == [t |-> "object", members |-> m]

\* json.dumps, had it written integers as text
JsonDumps_IntAsText(x) ==
    CASE x.ty = "NoneType" -> [k |-> "null"]
      [] x.ty = "int" -> [k |-> "string", v |-> ToString(x.v)]
      [] x.ty = "str" -> [k |-> "string", v |-> x.v]

\* json.dumps of one value
JsonDumps(x) ==
    CASE x.ty = "NoneType" -> [k |-> "null"]
      [] x.ty = "int" -> [k |-> "number", v |-> x.v]
      [] x.ty = "str" -> [k |-> "string", v |-> x.v]

\* json.loads of one value
JsonLoads(j) ==
    CASE j.k = "null" -> PyNone
      [] j.k = "number" -> PyInt(j.v)
      [] j.k = "string" -> PyStr(j.v)

\* State(): the dataclass defaults; updated_at_iso was evaluated when the
\* class was defined, at the start of the process (instant t)
DefaultState(t) ==
    [ current_holder |-> PyStr(DEFAULT_HOLDER),
      updated_at_iso |-> PyStr(IsoFormat(t)),
      pinned_message_id |-> PyNone,
      chat_id |-> PyNone ]

\* State.load() in a process started at instant t
Load(f, t) ==
    IF f.t = "object" /\ DOMAIN f.members \subseteq FieldNames
    THEN [ k \in FieldNames |->
             IF k \in DOMAIN f.members
             THEN JsonLoads(f.members[k])
             ELSE DefaultState(t)[k] ]
    ELSE DefaultState(t)

\* the text State.save() writes
Dumped(s) == JsonObject([ k \in FieldNames |-> JsonDumps(s[k]) ])

(***************************************************************************)
(* log.csv: whether the file exists, and its lines (each a tuple of cells) *)
(***************************************************************************)
ensure_log_header(l) ==
    IF l.exists THEN l ELSE [exists |-> TRUE, rows |-> << HeaderRow >>]

log_event(l, t, action, de, para, by_user_id, chat_id) ==
    LET l1 == ensure_log_header(l)
    IN  [ l1 EXCEPT !.rows =
            Append(@, << IsoFormat(t), action, CellText(de), CellText(para),
                         CellText(by_user_id), CellText(chat_id) >>) ]

(***************************************************************************)
(* What the handlers do to the State object.                               *)
(***************************************************************************)
\* "if state.chat_id and state.pinned_message_id"
HasDisplayRef(s) == Truthy(s.chat_id) /\ Truthy(s.pinned_message_id)

\* on_definir, had it returned early when the holder does not change
DefinirMutate_SkipSame(s, novo, t) ==
    IF s.current_holder = PyStr(novo)
    THEN s
    ELSE [ s EXCEPT !.current_holder = PyStr(novo),
                    !.updated_at_iso = PyStr(IsoFormat(t)) ]

\* on_definir: state.current_holder = novo; state.updated_at_iso = utcnow_iso()
DefinirMutate(s, novo, t) ==
    [ s EXCEPT !.current_holder = PyStr(novo),
               !.updated_at_iso = PyStr(IsoFormat(t)) ]

\* cmd_reset, had it left the timestamp alone
ResetMutate_NoTimestamp(s, t) == [ s EXCEPT !.current_holder = PyStr(SECRETARIA) ]

\* cmd_reset: state.current_holder = SECRETARIA; state.updated_at_iso = utcnow_iso()
ResetMutate(s, t) ==
    [ s EXCEPT !.current_holder = PyStr(SECRETARIA),
               !.updated_at_iso = PyStr(IsoFormat(t)) ]

\* the "para" argument of the handler's log_event call
DefinirPara(novo) == PyStr(novo)

ResetPara == PyStr(SECRETARIA)

(***************************************************************************)
(* The state of the program and of its files.                              *)
(*   state     the module-level State object                               *)
(*   boot      the instant the running process was started                 *)
(*   file      the content of state.json                                   *)
(*   log       log.csv                                                     *)
(*   hs        the handler tasks: where each stands (pc), its locals        *)
(*             (anterior, novo), its update (by, chat), its number in the  *)
(*             order of delivery (id) and the effects it has had, in order *)
(*             (fx)                                                        *)
(*   calls     updates delivered so far                                    *)
(*   now       the clock                                                   *)
(* History kept for the properties:                                        *)
(*   committed the content of state.json before the save in progress       *)
(*   logged    for each event row appended, the id of the handler          *)
(*   last      what the last step was: a load, a completed save, the end   *)
(*             of a handler (done, or failed with an error), or else       *)
(***************************************************************************)
VARIABLES state, boot, file, committed, log, logged, hs, calls, now, last

vars == << state, boot, file, committed, log, logged, hs, calls, now, last >>

IdleSlot ==
    [ pc |-> "idle", kind |-> "none", id |-> 0, anterior |-> PyNone,
      novo |-> "", by |-> 0, chat |-> 0, fx |-> << >> ]

NoTasks == [ h \in Handlers |-> IdleSlot ]

\* a slot that holds no running task
Free(h) == hs[h].pc = "idle"

\* where a handler stands between the open and the write of State.save()
SavingPcs == { "saving", "s_saving", "s_resaving" }

\* a handler is between the open and the write of State.save()
Busy == \E h \in Handlers : hs[h].pc \in SavingPcs

Quiescent == \A h \in Handlers : Free(h)

\* the task of slot h has ended
Ended(h) == [ hs EXCEPT ![h] = IdleSlot ]

(***************************************************************************)
(* The initial states: the module has been imported, state = State.load(). *)
(***************************************************************************)
\* a state.json written by an earlier run
SavedLucas ==
    JsonObject([ k \in FieldNames |->
      CASE k = "current_holder" -> [k |-> "string", v |-> "Lucas"]
        [] k = "updated_at_iso" -> [k |-> "string", v |-> IsoFormat(0)]
        [] k = "pinned_message_id" -> [k |-> "number", v |-> 7]
        [] k = "chat_id" -> [k |-> "number", v |-> 100] ])

\* a state.json that lacks the member chat_id
SavedNoChat ==
    JsonObject([ k \in FieldNames \ { "chat_id" } |-> SavedLucas.members[k] ])

\* the contents state.json may have when the process starts
StartFiles ==
    { Missing, Truncated, JsonArray,
      JsonObject([ k \in { "holder" } |-> [k |-> "string", v |-> "Lucas"] ]),
      JsonObject([ k \in { "current_holder" } |-> [k |-> "number", v |-> 42] ]),
      SavedNoChat,
      SavedLucas }

NoLog == [exists |-> FALSE, rows |-> << >>]

LucasRow == << IsoFormat(0), ACAO_TRANSFERIR, "Secretaria", "Lucas", "1", "100" >>

LucasLog == [exists |-> TRUE, rows |-> << HeaderRow, LucasRow >>]

StartLogs == { NoLog, LucasLog }

InitWith(f, l) ==
    /\ file = f
    /\ log = l
    /\ now = 0
    /\ boot = 0
    /\ state = Load(f, 0)
    /\ committed = f
    /\ logged = << >>
    /\ hs = NoTasks
    /\ calls = 0
    /\ last = "load"

Init == \E f \in StartFiles, l \in StartLogs : InitWith(f, l)

\* a first run, or a run that continues an earlier one
InitInstalled == InitWith(Missing, NoLog) \/ InitWith(SavedLucas, LucasLog)

(***************************************************************************)
(* The steps of the handlers.                                              *)
(***************************************************************************)
\* the handler is entered (in the first free slot): its locals, and
\* State.save() opens state.json for writing, which empties it, or fails to
\* and the handler ends with the error
Enter(h, kind, novo, by, chat, opened) ==
    /\ ~Busy
    /\ Free(h)
    /\ \A g \in Handlers : g < h => ~Free(g)
    /\ calls < MaxOps
    /\ calls' = calls + 1
    /\ hs' = IF opened
             THEN [ hs EXCEPT ![h] =
                      [ pc |-> "saving", kind |-> kind, id |-> calls + 1,
                        anterior |-> state.current_holder, novo |-> novo,
                        by |-> by, chat |-> chat, fx |-> << >> ] ]
             ELSE hs
    /\ file' = IF opened THEN Truncated ELSE file
    /\ committed' = file
    /\ last' = IF opened THEN "other" ELSE "failed"
    /\ UNCHANGED << boot, log, logged, now >>

\* on_definir, up to the write of State.save()
OnDefinir(h, novo, by, chat, opened) ==
    /\ state' = DefinirMutate(state, novo, now)
    /\ Enter(h, "definir", novo, by, chat, opened)

\* cmd_reset, up to the write of State.save()
CmdReset(h, by, chat, opened) ==
    /\ state' = ResetMutate(state, now)
    /\ Enter(h, "reset", SECRETARIA, by, chat, opened)

LogOutcomes == { "ok", "fail_header", "fail_header_write", "fail_row" }

\* log_event(...) of handler h and the call that follows it (nextpc); the
\* call raises when the first open (ensure_log_header) fails, when that open
\* has created log.csv and the write of the header fails, or when the
\* second open fails, and the handler ends with the error
LogAttempt(h, action, para, outcome, nextpc, fx0) ==
    /\ log' = CASE outcome = "ok" ->
                     log_event(log, now, action, hs[h].anterior, para,
                               PyInt(hs[h].by), PyInt(hs[h].chat))
                [] outcome = "fail_header" -> log
                [] outcome = "fail_header_write" -> [ log EXCEPT !.exists = TRUE ]
                [] outcome = "fail_row" -> ensure_log_header(log)
    /\ logged' = IF outcome = "ok" THEN Append(logged, hs[h].id) ELSE logged
    /\ hs' = IF outcome = "ok"
             THEN [ hs EXCEPT ![h].pc = nextpc,
                              ![h].fx = fx0 \o << "log", nextpc >> ]
             ELSE Ended(h)

\* State.save() writes; the handler runs on to its next await
SaveWrite(h, outcome) ==
    /\ hs[h].pc = "saving"
    /\ file' = Dumped(state)
    /\ committed' = file'
    /\ IF HasDisplayRef(state)
       THEN \* await bot.edit_message_text(...) of the pinned message
            /\ outcome = "ok"
            /\ hs' = [ hs EXCEPT ![h].pc = "edit_pinned",
                                 ![h].fx = << "save", "edit_pinned" >> ]
            /\ last' = "save"
            /\ UNCHANGED << log, logged >>
       ELSE IF hs[h].kind = "definir"
            THEN \* await cb.message.edit_text(...)
                 /\ outcome = "ok"
                 /\ hs' = [ hs EXCEPT ![h].pc = "edit_current",
                                      ![h].fx = << "save", "edit_current" >> ]
                 /\ last' = "save"
                 /\ UNCHANGED << log, logged >>
            ELSE \* cmd_reset: log_event, await msg.reply(...)
                 /\ LogAttempt(h, ACAO_RESET, ResetPara, outcome, "reply", << "save" >>)
                 /\ last' = IF outcome = "ok" THEN "save" ELSE "failed"
    /\ UNCHANGED << state, boot, calls, now >>

\* the write of State.save() raises, had the error been passed over
SaveWriteFail_PassedOver(h) ==
    /\ hs[h].pc = "saving"
    /\ hs' = [ hs EXCEPT ![h].pc = "answer", ![h].fx = << "save_failed", "answer" >> ]
    /\ committed' = file
    /\ last' = "other"
    /\ UNCHANGED << state, boot, file, log, logged, calls, now >>

\* the write of State.save() raises: the handler ends with the error
SaveWriteFail(h) ==
    /\ hs[h].pc = "saving"
    /\ hs' = Ended(h)
    /\ committed' = file
    /\ last' = "failed"
    /\ UNCHANGED << state, boot, file, log, logged, calls, now >>

\* the edit of the pinned message returns or raises (the error is passed over)
EditPinnedDone(h, outcome) ==
    /\ ~Busy
    /\ hs[h].pc = "edit_pinned"
    /\ IF hs[h].kind = "definir"
       THEN \* await cb.message.edit_text(...)
            /\ outcome = "ok"
            /\ hs' = [ hs EXCEPT ![h].pc = "edit_current",
                                 ![h].fx = Append(@, "edit_current") ]
            /\ last' = "other"
            /\ UNCHANGED << log, logged >>
       ELSE \* cmd_reset: log_event, await msg.reply(...)
            /\ LogAttempt(h, ACAO_RESET, ResetPara, outcome, "reply", hs[h].fx)
            /\ last' = IF outcome = "ok" THEN "other" ELSE "failed"
    /\ UNCHANGED << state, boot, file, committed, calls, now >>

\* on_definir: the edit of the current message returns or raises (passed
\* over); log_event, await cb.message.answer(...)
EditCurrentDone(h, outcome) ==
    /\ ~Busy
    /\ hs[h].pc = "edit_current"
    /\ LogAttempt(h, ACAO_TRANSFERIR, DefinirPara(hs[h].novo), outcome, "confirm", hs[h].fx)
    /\ last' = IF outcome = "ok" THEN "other" ELSE "failed"
    /\ UNCHANGED << state, boot, file, committed, calls, now >>

\* on_definir: the confirmation returns or raises (passed over);
\* await cb.answer(...)
ConfirmDone(h) ==
    /\ ~Busy
    /\ hs[h].pc = "confirm"
    /\ hs' = [ hs EXCEPT ![h].pc = "answer", ![h].fx = Append(@, "answer") ]
    /\ last' = "other"
    /\ UNCHANGED << state, boot, file, committed, log, logged, calls, now >>

\* the last call of the handler (cb.answer, msg.reply) returns, or raises
\* and the handler ends with the error
LastCallDone(h, ok) ==
    /\ ~Busy
    /\ hs[h].pc \in { "answer", "reply" }
    /\ hs' = Ended(h)
    /\ last' = IF ok THEN "done" ELSE "failed"
    /\ UNCHANGED << state, boot, file, committed, log, logged, calls, now >>

\* the process stops (at any point) and is started again: state = State.load()
Restart ==
    /\ state' = Load(file, now)
    /\ boot' = now
    /\ hs' = NoTasks
    /\ committed' = file
    /\ last' = "load"
    /\ UNCHANGED << file, log, logged, calls, now >>

Tick ==
    /\ now < MaxTime
    /\ now' = now + 1
    /\ last' = "other"
    /\ UNCHANGED << state, boot, file, committed, log, logged, hs, calls >>

(***************************************************************************)
(* The calls of on_definir and cmd_reset to the chat that raise: the error *)
(* is passed over ("except Exception: pass") and the handler goes on.      *)
(***************************************************************************)
\* the edit of the pinned message raises, had the error not been passed over
EditPinnedFail_Raises(h, outcome) ==
    /\ ~Busy
    /\ hs[h].pc = "edit_pinned"
    /\ hs' = Ended(h)
    /\ last' = "failed"
    /\ UNCHANGED << state, boot, file, committed, log, logged, calls, now >>

\* the edit of the pinned message raises
EditPinnedFail(h, outcome) ==
    /\ ~Busy
    /\ hs[h].pc = "edit_pinned"
    /\ IF hs[h].kind = "definir"
       THEN \* await cb.message.edit_text(...)
            /\ outcome = "ok"
            /\ hs' = [ hs EXCEPT ![h].pc = "edit_current",
                                 ![h].fx = @ \o << "edit_pinned_failed", "edit_current" >> ]
            /\ last' = "other"
            /\ UNCHANGED << log, logged >>
       ELSE \* cmd_reset: log_event, await msg.reply(...)
            /\ LogAttempt(h, ACAO_RESET, ResetPara, outcome, "reply",
                          Append(hs[h].fx, "edit_pinned_failed"))
            /\ last' = IF outcome = "ok" THEN "other" ELSE "failed"
    /\ UNCHANGED << state, boot, file, committed, calls, now >>

\* on_definir: the edit of the current message raises; log_event,
\* await cb.message.answer(...)
EditCurrentFail(h, outcome) ==
    /\ ~Busy
    /\ hs[h].pc = "edit_current"
    /\ LogAttempt(h, ACAO_TRANSFERIR, DefinirPara(hs[h].novo), outcome, "confirm",
                  Append(hs[h].fx, "edit_current_failed"))
    /\ last' = IF outcome = "ok" THEN "other" ELSE "failed"
    /\ UNCHANGED << state, boot, file, committed, calls, now >>

\* on_definir: the confirmation raises; await cb.answer(...)
ConfirmFail(h) ==
    /\ ~Busy
    /\ hs[h].pc = "confirm"
    /\ hs' = [ hs EXCEPT ![h].pc = "answer",
                         ![h].fx = @ \o << "confirm_failed", "answer" >> ]
    /\ last' = "other"
    /\ UNCHANGED << state, boot, file, committed, log, logged, calls, now >>

(***************************************************************************)
(* cmd_setup in a group.                                                   *)
(***************************************************************************)
\* the groups /setup is sent in
Groups == { 100, 200 }

\* the message_id of the n-th message the handler of update c has sent: an
\* id no earlier message has
MessageId(c, n) == 7 + 2 * (c - 1) + n

\* "if state.pinned_message_id and state.chat_id == msg.chat.id"
HasDisplayRefFor(s, chat) == Truthy(s.pinned_message_id) /\ s.chat_id = PyInt(chat)

\* the adoption, had it also put the key back with the default holder
Adopt_ResetsHolder(s, m, chat) ==
    [ s EXCEPT !.pinned_message_id = PyInt(m), !.chat_id = PyInt(chat),
               !.current_holder = PyStr(DEFAULT_HOLDER) ]

\* state.pinned_message_id = m.message_id; state.chat_id = msg.chat.id
Adopt(s, m, chat) ==
    [ s EXCEPT !.pinned_message_id = PyInt(m), !.chat_id = PyInt(chat) ]

\* cmd_setup is entered: await bot.edit_message_text(...) of the pinned
\* message of this chat, or await msg.answer(...) when there is none
CmdSetup(h, by, chat) ==
    /\ ~Busy
    /\ Free(h)
    /\ \A g \in Handlers : g < h => ~Free(g)
    /\ calls < MaxOps
    /\ calls' = calls + 1
    /\ hs' = [ hs EXCEPT ![h] =
                 [ pc |-> IF HasDisplayRefFor(state, chat) THEN "s_edit" ELSE "s_send",
                   kind |-> "setup", id |-> calls + 1,
                   anterior |-> PyNone, novo |-> "",
                   by |-> by, chat |-> chat,
                   fx |-> IF HasDisplayRefFor(state, chat)
                          THEN << "s_edit" >> ELSE << "send" >> ] ]
    /\ last' = "other"
    /\ UNCHANGED << state, boot, file, committed, log, logged, now >>

\* the edit returns: await msg.reply(...); or raises: the except branch,
\* await msg.answer(...)
SetupEditDone(h, ok) ==
    /\ ~Busy
    /\ hs[h].pc = "s_edit"
    /\ hs' = [ hs EXCEPT
                 ![h].pc = IF ok THEN "reply" ELSE "s_resend",
                 ![h].fx = @ \o (IF ok THEN << "reply" >> ELSE << "s_edit_failed", "send" >>) ]
    /\ last' = "other"
    /\ UNCHANGED << state, boot, file, committed, log, logged, calls, now >>

\* msg.answer returns the new message: await bot.pin_chat_message(...); or
\* raises: the except branch, await msg.answer(...)
SetupSendDone(h, ok) ==
    /\ ~Busy
    /\ hs[h].pc = "s_send"
    /\ hs' = [ hs EXCEPT
                 ![h].pc = IF ok THEN "s_pin" ELSE "s_resend",
                 ![h].fx = @ \o (IF ok THEN << "pin" >> ELSE << "send_failed", "send" >>) ]
    /\ last' = "other"
    /\ UNCHANGED << state, boot, file, committed, log, logged, calls, now >>

\* the pin returns or raises, had the error of the pin not been passed over:
\* it is caught by the except branch, the message not adopted
SetupPinDone_Raises(h, ok, opened) ==
    /\ ~Busy
    /\ hs[h].pc = "s_pin"
    /\ state' = IF ok THEN Adopt(state, MessageId(hs[h].id, 1), hs[h].chat) ELSE state
    /\ hs' = [ hs EXCEPT
                 ![h].pc = IF ok /\ opened THEN "s_saving" ELSE "s_resend",
                 ![h].fx = @ \o (IF ok THEN << >> ELSE << "pin_failed" >>)
                             \o (IF ok /\ opened THEN << >> ELSE << "send" >>) ]
    /\ file' = IF ok /\ opened THEN Truncated ELSE file
    /\ committed' = file
    /\ last' = "other"
    /\ UNCHANGED << boot, log, logged, calls, now >>

\* the pin returns or raises (passed over): the message is adopted and
\* State.save() opens state.json, or fails to: the except branch,
\* await msg.answer(...)
SetupPinDone(h, ok, opened) ==
    /\ ~Busy
    /\ hs[h].pc = "s_pin"
    /\ state' = Adopt(state, MessageId(hs[h].id, 1), hs[h].chat)
    /\ hs' = [ hs EXCEPT
                 ![h].pc = IF opened THEN "s_saving" ELSE "s_resend",
                 ![h].fx = @ \o (IF ok THEN << >> ELSE << "pin_failed" >>)
                             \o (IF opened THEN << >> ELSE << "save_failed", "send" >>) ]
    /\ file' = IF opened THEN Truncated ELSE file
    /\ committed' = file
    /\ last' = "other"
    /\ UNCHANGED << boot, log, logged, calls, now >>

\* State.save() writes: await msg.reply(...)
SetupSaveWrite(h) ==
    /\ hs[h].pc = "s_saving"
    /\ file' = Dumped(state)
    /\ committed' = file'
    /\ hs' = [ hs EXCEPT ![h].pc = "reply", ![h].fx = @ \o << "save", "reply" >> ]
    /\ last' = "save"
    /\ UNCHANGED << state, boot, log, logged, calls, now >>

\* the write of State.save() raises: the except branch, await msg.answer(...)
SetupSaveWriteFail(h) ==
    /\ hs[h].pc = "s_saving"
    /\ hs' = [ hs EXCEPT ![h].pc = "s_resend",
                         ![h].fx = @ \o << "save_failed", "send" >> ]
    /\ committed' = file
    /\ last' = "other"
    /\ UNCHANGED << state, boot, file, log, logged, calls, now >>

\* the except branch: msg.answer returns the new message:
\* await bot.pin_chat_message(...); or raises and the handler ends with the
\* error
SetupResendDone(h, ok) ==
    /\ ~Busy
    /\ hs[h].pc = "s_resend"
    /\ hs' = IF ok
             THEN [ hs EXCEPT ![h].pc = "s_repin", ![h].fx = Append(@, "pin") ]
             ELSE Ended(h)
    /\ last' = IF ok THEN "other" ELSE "failed"
    /\ UNCHANGED << state, boot, file, committed, log, logged, calls, now >>

\* the except branch: the pin returns or raises (passed over): the message
\* is adopted and State.save() opens state.json, or fails to and the handler
\* ends with the error
SetupRepinDone(h, ok, opened) ==
    /\ ~Busy
    /\ hs[h].pc = "s_repin"
    /\ state' = Adopt(state, MessageId(hs[h].id, 2), hs[h].chat)
    /\ hs' = IF opened
             THEN [ hs EXCEPT ![h].pc = "s_resaving",
                              ![h].fx = @ \o (IF ok THEN << >> ELSE << "pin_failed" >>) ]
             ELSE Ended(h)
    /\ file' = IF opened THEN Truncated ELSE file
    /\ committed' = file
    /\ last' = IF opened THEN "other" ELSE "failed"
    /\ UNCHANGED << boot, log, logged, calls, now >>

\* the except branch: State.save() writes: await msg.reply(...)
SetupResaveWrite(h) ==
    /\ hs[h].pc = "s_resaving"
    /\ file' = Dumped(state)
    /\ committed' = file'
    /\ hs' = [ hs EXCEPT ![h].pc = "reply", ![h].fx = @ \o << "save", "reply" >> ]
    /\ last' = "save"
    /\ UNCHANGED << state, boot, log, logged, calls, now >>

\* the except branch: the write of State.save() raises and the handler ends
\* with the error
SetupResaveWriteFail(h) ==
    /\ hs[h].pc = "s_resaving"
    /\ hs' = Ended(h)
    /\ committed' = file
    /\ last' = "failed"
    /\ UNCHANGED << state, boot, file, log, logged, calls, now >>

(***************************************************************************)
(* The handlers that only answer: they read the State and call the chat;   *)
(* their calls return, or raise and the handler ends with the error.       *)
(***************************************************************************)
Answered(name, ok) ==
    /\ ~Busy
    /\ calls < MaxOps
    /\ calls' = calls + 1
    /\ last' = IF ok THEN name ELSE "read_failed"
    /\ UNCHANGED << state, boot, file, committed, log, logged, hs, now >>

\* cmd_start: await msg.reply(...)
CmdStart(ok) ==
    /\ Answered("start", ok)

\* cmd_setup outside a group: await msg.reply(...); return
CmdSetupOutsideGroup(ok) ==
    /\ Answered("setup_refused", ok)

\* cmd_status: await msg.reply(status_text(state), ...)
CmdStatus(ok) ==
    /\ Answered("status", ok)

\* on_transferir: await cb.message.edit_reply_markup(...); await cb.answer(...)
OnTransferir(ok) ==
    /\ Answered("transferir", ok)

\* on_voltar: await cb.message.edit_reply_markup(...); await cb.answer()
OnVoltar(ok) ==
    /\ Answered("voltar", ok)

\* the steps of cmd_setup in a group with no failure
SetupRun ==
    \/ \E h \in Handlers, by \in Users, chat \in Groups : CmdSetup(h, by, chat)
    \/ \E h \in Handlers : SetupEditDone(h, TRUE)
    \/ \E h \in Handlers : SetupSendDone(h, TRUE)
    \/ \E h \in Handlers : SetupPinDone(h, TRUE, TRUE)
    \/ \E h \in Handlers : SetupSaveWrite(h)

\* the handlers that only answer, with no failure
AnswerRun ==
    \/ CmdStart(TRUE)
    \/ CmdSetupOutsideGroup(TRUE)
    \/ CmdStatus(TRUE)
    \/ OnTransferir(TRUE)
    \/ OnVoltar(TRUE)

NextUp ==
    \/ \E h \in Handlers, novo \in Targets, by \in Users, chat \in Chats, opened \in BOOLEAN :
         OnDefinir(h, novo, by, chat, opened)
    \/ \E h \in Handlers, by \in Users, chat \in Chats, opened \in BOOLEAN :
         CmdReset(h, by, chat, opened)
    \/ \E h \in Handlers, outcome \in LogOutcomes : SaveWrite(h, outcome)
    \/ \E h \in Handlers : SaveWriteFail(h)
    \/ \E h \in Handlers, outcome \in LogOutcomes : EditPinnedDone(h, outcome)
    \/ \E h \in Handlers, outcome \in LogOutcomes : EditCurrentDone(h, outcome)
    \/ \E h \in Handlers : ConfirmDone(h)
    \/ \E h \in Handlers, ok \in BOOLEAN : LastCallDone(h, ok)
    \/ \E h \in Handlers, outcome \in LogOutcomes : EditPinnedFail(h, outcome)
    \/ \E h \in Handlers, outcome \in LogOutcomes : EditCurrentFail(h, outcome)
    \/ \E h \in Handlers : ConfirmFail(h)
    \/ \E h \in Handlers, by \in Users, chat \in Groups : CmdSetup(h, by, chat)
    \/ \E h \in Handlers, ok \in BOOLEAN : SetupEditDone(h, ok)
    \/ \E h \in Handlers, ok \in BOOLEAN : SetupSendDone(h, ok)
    \/ \E h \in Handlers, ok \in BOOLEAN, opened \in BOOLEAN : SetupPinDone(h, ok, opened)
    \/ \E h \in Handlers : SetupSaveWrite(h)
    \/ \E h \in Handlers : SetupSaveWriteFail(h)
    \/ \E h \in Handlers, ok \in BOOLEAN : SetupResendDone(h, ok)
    \/ \E h \in Handlers, ok \in BOOLEAN, opened \in BOOLEAN : SetupRepinDone(h, ok, opened)
    \/ \E h \in Handlers : SetupResaveWrite(h)
    \/ \E h \in Handlers : SetupResaveWriteFail(h)
    \/ \E ok \in BOOLEAN : CmdStart(ok)
    \/ \E ok \in BOOLEAN : CmdSetupOutsideGroup(ok)
    \/ \E ok \in BOOLEAN : CmdStatus(ok)
    \/ \E ok \in BOOLEAN : OnTransferir(ok)
    \/ \E ok \in BOOLEAN : OnVoltar(ok)
    \/ Tick

\* every step of the program: the process may also be stopped
Next == NextUp \/ Restart

Spec == Init /\ [][Next]_vars

\* a run in which no file operation and no last call fails and the process
\* is not stopped
NextRun ==
    \/ \E h \in Handlers, novo \in Targets, by \in Users, chat \in Chats :
         OnDefinir(h, novo, by, chat, TRUE)
    \/ \E h \in Handlers, by \in Users, chat \in Chats : CmdReset(h, by, chat, TRUE)
    \/ \E h \in Handlers : SaveWrite(h, "ok")
    \/ \E h \in Handlers : EditPinnedDone(h, "ok")
    \/ \E h \in Handlers : EditCurrentDone(h, "ok")
    \/ \E h \in Handlers : ConfirmDone(h)
    \/ \E h \in Handlers : LastCallDone(h, TRUE)
    \/ Tick

SpecRun == InitInstalled /\ [][NextRun]_vars

\* such a run, in which the process may be stopped and started again
NextStop == NextRun \/ Restart

SpecStop == InitInstalled /\ [][NextStop]_vars

\* a run in which calls to the chat may raise, no file operation fails and
\* the process is not stopped
NextChat ==
    \/ NextRun
    \/ SetupRun
    \/ AnswerRun
    \/ \E h \in Handlers : EditPinnedFail(h, "ok")
    \/ \E h \in Handlers : EditCurrentFail(h, "ok")
    \/ \E h \in Handlers : ConfirmFail(h)
    \/ \E h \in Handlers : LastCallDone(h, FALSE)
    \/ \E h \in Handlers : SetupEditDone(h, FALSE)
    \/ \E h \in Handlers : SetupSendDone(h, FALSE)
    \/ \E h \in Handlers : SetupPinDone(h, FALSE, TRUE)
    \/ \E h \in Handlers, ok \in BOOLEAN : SetupResendDone(h, ok)
    \/ \E h \in Handlers, ok \in BOOLEAN : SetupRepinDone(h, ok, TRUE)
    \/ \E h \in Handlers : SetupResaveWrite(h)
    \/ CmdStart(FALSE)
    \/ CmdSetupOutsideGroup(FALSE)
    \/ CmdStatus(FALSE)
    \/ OnTransferir(FALSE)
    \/ OnVoltar(FALSE)

SpecChat == InitInstalled /\ [][NextChat]_vars

\* a run in which calls to the chat and file operations may fail and the
\* process is not stopped
SpecUp == InitInstalled /\ [][NextUp]_vars

(***************************************************************************)
(* Properties.                                                             *)
(***************************************************************************)
\* the cells of an event row
Acao(row) == row[2]

De(row) == row[3]

Para(row) == row[4]

ByUserId(row) == row[5]

ChatId(row) == row[6]

\* the event rows of the log (its lines after the header)
EventRows == IF log.exists /\ log.rows # << >> THEN Tail(log.rows) ELSE << >>

LastOf(q) == q[Len(q)]

\* this step is a step of the task in slot h
StepOf(h) == hs'[h] # hs[h]

\* this step enters a handler in slot h
Entered(h) == hs[h].pc = "idle" /\ hs'[h].pc = "saving"

\* this step is the log_event call of the task in slot h
LoggedBy(h) ==
    /\ hs[h].pc # "idle"
    /\ Len(logged') = Len(logged) + 1
    /\ LastOf(logged') = hs[h].id

\* C1: in every reachable state current_holder is a name of the roster (so
\* it is never empty)
C1_HolderInRoster ==
    /\ state.current_holder.ty = "str"
    /\ state.current_holder.v \in EMPREGADOS

InvalidTarget(slot) == slot.kind = "definir" /\ slot.novo \notin EMPREGADOS

\* C2: no step of a transfer whose target is not in the roster changes
\* current_holder, updated_at, state.json or the log
C2_InvalidHolderChangesNothing ==
    [][ \A h \in Handlers :
          (StepOf(h) /\ (InvalidTarget(hs[h]) \/ InvalidTarget(hs'[h])))
            => (state' = state /\ file' = file /\ log' = log) ]_vars

\* reset against a transfer to the default holder, the action cell of a
\* transfer row being "word": the same State, the same row but for its action
ResetAsTransfer(word) ==
    \A h \in Handlers :
      /\ (Entered(h) /\ hs'[h].kind = "reset") =>
           /\ state' = DefinirMutate(state, DEFAULT_HOLDER, now)
           /\ state'.current_holder = PyStr(DEFAULT_HOLDER)
           /\ state'.updated_at_iso = PyStr(IsoFormat(now))
           /\ state'.pinned_message_id = state.pinned_message_id
           /\ state'.chat_id = state.chat_id
      /\ (LoggedBy(h) /\ hs[h].kind = "reset") =>
           LET t == log_event(log, now, word, hs[h].anterior,
                              DefinirPara(DEFAULT_HOLDER),
                              PyInt(hs[h].by), PyInt(hs[h].chat))
               r == LastOf(log'.rows)
               q == LastOf(t.rows)
           IN  /\ Len(log'.rows) = Len(t.rows)
               /\ SubSeq(log'.rows, 1, Len(t.rows) - 1) = SubSeq(t.rows, 1, Len(t.rows) - 1)
               /\ De(r) = De(q) /\ Para(r) = Para(q)
               /\ ByUserId(r) = ByUserId(q) /\ ChatId(r) = ChatId(q)
               /\ De(r) = CellText(hs[h].anterior)
               /\ Para(r) = DEFAULT_HOLDER
               /\ Acao(r) = "reset"
               /\ Acao(q) = word
      /\ (LoggedBy(h) /\ hs[h].kind = "definir") => Acao(LastOf(log'.rows)) = word

PriorRows == { << >>, << HeaderRow >>, << HeaderRow, LucasRow >> }

\* C4: the log is what it was followed by one row for each operation, in
\* the order in which the operations were called
C4_RowsInCallOrder ==
    /\ Len(log.rows) >= Len(logged)
    /\ log.exists => SubSeq(log.rows, 1, Len(log.rows) - Len(logged)) \in PriorRows
    /\ \A i, j \in 1 .. Len(logged) : i < j => logged[i] < logged[j]

\* C5: each row starts from the holder the row before it ended with, and
\* with no handler in flight the last row ends with current_holder
C5_RowsFollowMutations ==
    /\ \A i \in 2 .. Len(EventRows) : De(EventRows[i]) = Para(EventRows[i - 1])
    /\ (Quiescent /\ EventRows # << >>)
         => Para(LastOf(EventRows)) = CellText(state.current_holder)

Positions(fx, tags) == { i \in 1 .. Len(fx) : fx[i] \in tags }

DisplayCalls == { "edit_pinned", "edit_current", "confirm" }

\* C6: an operation that got to its last call has saved once, then logged
\* once, and has made its display calls only after that
C6_SaveThenLogThenDisplay ==
    \A h \in Handlers :
      hs[h].pc \in { "answer", "reply" } =>
        LET fx == hs[h].fx
        IN  /\ Cardinality(Positions(fx, { "save" })) = 1
            /\ Cardinality(Positions(fx, { "log" })) = 1
            /\ \A i \in Positions(fx, { "save" }), j \in Positions(fx, { "log" }) : i < j
            /\ \A j \in Positions(fx, { "log" }), k \in Positions(fx, DisplayCalls) : j < k

\* the task in the slot is a transfer to the holder it found
Reaffirms(slot) == slot.kind = "definir" /\ slot.anterior = PyStr(slot.novo)

\* C7: a transfer to the current holder is carried out: the holder stays,
\* updated_at becomes now, the State is saved, and the handler appends one
\* row, from the holder to the holder
C7_Reaffirmation ==
    [][ \A h \in Handlers :
          /\ (Entered(h) /\ hs'[h].kind = "definir"
                /\ state.current_holder = PyStr(hs'[h].novo)) =>
               /\ state'.current_holder = state.current_holder
               /\ state'.updated_at_iso = PyStr(IsoFormat(now))
               /\ hs'[h].anterior = state.current_holder
               /\ Reaffirms(hs'[h])
          /\ (StepOf(h) /\ Reaffirms(hs[h]) /\ hs[h].pc = "saving") =>
               /\ state' = state
               /\ Load(file', boot') = state'
          /\ (StepOf(h) /\ Reaffirms(hs[h]) /\ hs[h].pc = "edit_current") =>
               /\ Len(log'.rows) = Len(ensure_log_header(log).rows) + 1
               /\ SubSeq(log'.rows, 1, Len(log'.rows) - 1) = ensure_log_header(log).rows
               /\ De(LastOf(log'.rows)) = hs[h].novo
               /\ Para(LastOf(log'.rows)) = hs[h].novo
               /\ hs'[h].pc = "confirm"
          /\ (StepOf(h) /\ Reaffirms(hs[h]) /\ hs[h].pc # "edit_current") =>
               log' = log ]_vars

\* a transfer to the holder it found has made all its calls
C7_Witness ==
    \E h \in Handlers :
      /\ Reaffirms(hs[h])
      /\ hs[h].pc = "answer"
      /\ De(LastOf(log.rows)) = Para(LastOf(log.rows))

\* C8: after a save, load returns the State that was saved
C8_SaveLoadRoundTrip ==
    last = "save" =>
      /\ Load(file, boot) = state
      /\ \A t \in 0 .. MaxTime, k \in FieldNames : Load(file, t)[k] = state[k]

\* a State with a display reference has been saved
C8_Witness ==
    /\ last = "save"
    /\ state.pinned_message_id = PyInt(7)
    /\ state.chat_id = PyInt(100)
    /\ state.current_holder = PyStr("Carol")

\* the content is an object of the four fields, each of its type
WellFormed(f) ==
    /\ f.t = "object"
    /\ DOMAIN f.members = FieldNames
    /\ f.members["current_holder"].k = "string"
    /\ f.members["updated_at_iso"].k = "string"
    /\ f.members["pinned_message_id"].k \in { "number", "null" }
    /\ f.members["chat_id"].k \in { "number", "null" }

\* C9: loaded from a state.json that is missing or malformed, the State is
\* the default one: the default holder and no display reference
C9_LoadFallsBackToDefault ==
    (last = "load" /\ ~WellFormed(file)) =>
      /\ state.current_holder = PyStr(DEFAULT_HOLDER)
      /\ state.pinned_message_id = PyNone
      /\ state.chat_id = PyNone

\* C10: when the process is stopped during a save, the load of the next
\* start returns the State of before the save or the State being saved
C10_SaveAtomic ==
    [][ (Busy /\ last' = "load")
          => state' \in { Load(committed, now), state } ]_vars

\* the two fields of the display reference of a State object are both set
\* or both None
RefWhole(s) == (s.pinned_message_id = PyNone) <=> (s.chat_id = PyNone)

\* C11: in every reachable state the display reference is whole, in the
\* State object and in the State state.json holds (what load reads from it)
C11_DisplayRefWhole == RefWhole(state) /\ RefWhole(Load(file, boot))

\* the handler has made the call, or met the outcome, that tag names
Has(fx, tag) == \E i \in DOMAIN fx : fx[i] = tag

\* the handler is past the update of the pinned status message
SyncOver(slot) ==
    \/ slot.kind \in { "definir", "reset" }
         /\ slot.pc \in { "edit_current", "confirm", "answer", "reply" }
    \/ slot.kind = "setup" /\ slot.pc = "reply"

\* it found no display reference to edit, or its edit failed
SyncFoundStale(slot) ==
    IF slot.kind = "setup"
    THEN ~Has(slot.fx, "s_edit") \/ Has(slot.fx, "s_edit_failed")
    ELSE ~Has(slot.fx, "edit_pinned") \/ Has(slot.fx, "edit_pinned_failed")

\* the display reference is a message this handler has sent, and is saved
AdoptedBy(slot) ==
    /\ \E n \in 1..2 : state.pinned_message_id = PyInt(MessageId(slot.id, n))
    /\ state.chat_id = PyInt(slot.chat)
    /\ file = Dumped(state)

\* C12: a display sync (of setup, transfer or reset) that finds no display
\* reference, or whose edit of the referenced message fails, sends a new
\* status message and adopts and saves its identity; one whose edit
\* succeeds sends none
C12_SyncRepairs ==
    \A h \in Handlers :
      SyncOver(hs[h]) =>
        IF SyncFoundStale(hs[h])
        THEN Has(hs[h].fx, "send") /\ AdoptedBy(hs[h])
        ELSE ~Has(hs[h].fx, "send")

\* the calls of a transfer or reset that update the chat before the answer
SyncPcs == { "edit_pinned", "edit_current", "confirm" }

SyncFailures == { "edit_pinned_failed", "edit_current_failed", "confirm_failed" }

\* C13: a call of a transfer or reset that updates the chat (the edit of the
\* pinned message, the edit of the current message, the confirmation) may
\* return or raise: either way the State and state.json stay as saved, the
\* handler goes on to its next call, it has logged its row once it is past
\* log_event, and, no later update having arrived, the holder in the State
\* and in state.json is its target
C13_SyncFailureHarmless ==
    [][ \A h \in Handlers :
          (hs[h].kind \in { "definir", "reset" } /\ hs[h].pc \in SyncPcs /\ StepOf(h)) =>
            /\ state' = state
            /\ file' = file
            /\ hs'[h].pc \in { "edit_current", "confirm", "answer", "reply" }
            /\ hs'[h].pc \in { "confirm", "answer", "reply" } =>
                 /\ \E i \in DOMAIN logged' : logged'[i] = hs[h].id
                 /\ \E i \in DOMAIN log'.rows :
                      /\ Para(log'.rows[i]) = hs[h].novo
                      /\ De(log'.rows[i]) = CellText(hs[h].anterior)
            /\ hs[h].id = calls =>
                 /\ state'.current_holder = PyStr(hs[h].novo)
                 /\ Load(file', boot).current_holder = PyStr(hs[h].novo) ]_vars

\* a transfer whose three calls all raised is at its answer, logged, the
\* holder its target
C13_Witness ==
    \E h \in Handlers :
      /\ hs[h].kind = "definir"
      /\ hs[h].pc = "answer"
      /\ \A t \in SyncFailures : Has(hs[h].fx, t)
      /\ hs[h].novo = "Carol"
      /\ state.current_holder = PyStr("Carol")
      /\ Load(file, boot).current_holder = PyStr("Carol")
      /\ \E i \in DOMAIN logged : logged[i] = hs[h].id

\* this step is the one in which the task of slot h calls log_event
LogStepOf(h) ==
    /\ StepOf(h)
    /\ \/ hs[h].kind = "definir" /\ hs[h].pc = "edit_current"
       \/ hs[h].kind = "reset" /\ hs[h].pc = "edit_pinned"
       \/ hs[h].kind = "reset" /\ hs[h].pc = "saving" /\ file' # file
            /\ ~HasDisplayRef(state)

\* C14: whether log_event appends the row or fails, the State and
\* state.json keep the mutation and the handler goes on to the call that
\* answers the actor
C14_LogFailureNonFatal ==
    [][ \A h \in Handlers :
          LogStepOf(h) =>
            /\ state' = state
            /\ Load(file', boot) = state
            /\ hs'[h].pc \in { "confirm", "reply" } ]_vars

\* this step is a transfer or reset whose State.save() fails to open
\* state.json: the handler ends before its first await
SaveOpenFailed == calls' = calls + 1 /\ last' = "failed"

\* this step is the failure of the write of State.save() of the task of
\* slot h
SaveWriteFailed(h) ==
    /\ hs[h].kind \in { "definir", "reset" }
    /\ hs[h].pc = "saving"
    /\ StepOf(h)
    /\ file' = file

\* C15: when the save of a transfer or reset fails, no row is appended to
\* the log and the handler is over, no call to the chat made: no
\* confirmation, no answer
C15_FailedSaveNotReported ==
    [][ /\ SaveOpenFailed => (log' = log /\ logged' = logged /\ hs' = hs)
        /\ \A h \in Handlers :
             SaveWriteFailed(h) =>
               /\ log' = log
               /\ logged' = logged
               /\ hs[h].fx = << >>
               /\ hs'[h] = IdleSlot ]_vars

\* a transfer to Carol has ended at the failed write of its save: the
\* holder in memory is Carol, state.json is cut, the log has no row
C15_Witness ==
    /\ last = "failed"
    /\ Quiescent
    /\ calls = 1
    /\ state.current_holder = PyStr("Carol")
    /\ file = Truncated
    /\ log = NoLog
    /\ logged = << >>

\* this step is the return, or the failure, of a pin_chat_message call of
\* the cmd_setup task of slot h
PinStepOf(h) ==
    hs[h].kind = "setup" /\ hs[h].pc \in { "s_pin", "s_repin" } /\ StepOf(h)

\* this step is the write of the State.save() of the cmd_setup task of slot h
SetupWriteOf(h) ==
    hs[h].kind = "setup" /\ hs[h].pc \in SavingPcs /\ StepOf(h)

\* C16: whether the pin of a new status message returns or raises, the
\* State takes the identity of that message and the chat, the save follows
\* and writes them to state.json, and cmd_setup gets to its reply
C16_PinFailureSwallowed ==
    [][ \A h \in Handlers :
          /\ PinStepOf(h) =>
               /\ state'.pinned_message_id =
                    PyInt(MessageId(hs[h].id, IF hs[h].pc = "s_pin" THEN 1 ELSE 2))
               /\ state'.chat_id = PyInt(hs[h].chat)
               /\ hs'[h].pc \in SavingPcs
          /\ SetupWriteOf(h) =>
               /\ state' = state
               /\ Load(file', boot).pinned_message_id = state.pinned_message_id
               /\ Load(file', boot).chat_id = state.chat_id
               /\ hs'[h].pc = "reply" ]_vars

\* a cmd_setup in chat 200 whose pin raised is at its reply: the State and
\* state.json refer to the message it sent
C16_Witness ==
    \E h \in Handlers :
      /\ hs[h].kind = "setup"
      /\ hs[h].pc = "reply"
      /\ hs[h].chat = 200
      /\ hs[h].fx = << "send", "pin", "pin_failed", "save", "reply" >>
      /\ state.pinned_message_id = PyInt(MessageId(hs[h].id, 1))
      /\ state.chat_id = PyInt(200)
      /\ Load(file, boot).pinned_message_id = state.pinned_message_id
      /\ Load(file, boot).chat_id = PyInt(200)

\* C17: ensure_log_header changes no log that exists and, called again,
\* changes nothing more; so a log that has lines has the header as its
\* first line and nowhere else
C17_OneHeaderFirst ==
    /\ log.exists => ensure_log_header(log) = log
    /\ ensure_log_header(ensure_log_header(log)) = ensure_log_header(log)
    /\ log.rows # << >> =>
         /\ log.rows[1] = HeaderRow
         /\ \A i \in 2 .. Len(log.rows) : log.rows[i] # HeaderRow

\* the holder and the display reference of a State object
Served(s) == << s.current_holder, s.pinned_message_id, s.chat_id >>

\* how the step that ended a handler is recorded
Finished ==
    { "done", "failed", "read_failed",
      "start", "setup_refused", "status", "transferir", "voltar" }

\* C18: when a handler has ended, normally or with an error, and none is
\* running, a load of state.json gives the holder and the display reference
\* of the State in memory
C18_MemoryIsPersisted ==
    (Quiescent /\ last \in Finished) => Served(Load(file, now)) = Served(state)

\* this step is a step of a handler that only answers
AnswerStep ==
    last' \in { "start", "setup_refused", "status", "transferir", "voltar", "read_failed" }

\* this step is a step of the cmd_setup task of slot h
SetupStepOf(h) == StepOf(h) /\ "setup" \in { hs[h].kind, hs'[h].kind }

\* C19: a step of cmd_start, cmd_status, on_transferir, on_voltar or of
\* cmd_setup outside a group changes neither the State nor state.json nor
\* log.csv; a step of cmd_setup in a group changes neither current_holder
\* nor updated_at_iso nor log.csv
C19_ReadOnlyFrame ==
    [][ /\ AnswerStep => (state' = state /\ file' = file /\ log' = log)
        /\ \A h \in Handlers :
             SetupStepOf(h) =>
               /\ state'.current_holder = state.current_holder
               /\ state'.updated_at_iso = state.updated_at_iso
               /\ log' = log
               /\ logged' = logged ]_vars

\* /status has answered while a cmd_setup task that has replaced the
\* display reference of the saved install waits for its reply: the holder,
\* the timestamp and the log are those of the install
C19_Witness ==
    /\ last = "status"
    /\ \E h \in Handlers :
         /\ hs[h].kind = "setup"
         /\ hs[h].pc = "reply"
         /\ Has(hs[h].fx, "save")
         /\ state.pinned_message_id = PyInt(MessageId(hs[h].id, 1))
    /\ state.chat_id = PyInt(200)
    /\ state.current_holder = PyStr("Lucas")
    /\ state.updated_at_iso = PyStr(IsoFormat(0))
    /\ file = Dumped(state)
    /\ log = LucasLog

====
